---- MODULE Spec2Model ----
(***************************************************************************)
(* Model of real_ip.rs: resolution of the client's "real" IP address from  *)
(* proxy headers (get_ip_from_parts / parse_ip), the privacy mask          *)
(* (From<RealIp> for RealIpPrivacyMask), the caching middleware            *)
(* (RealIpService::call) and the two extractors (from_request_parts).      *)
(*                                                                         *)
(* Header values are sequences of one-character strings, so that parsing   *)
(* is computed character by character as std::net's parser does.           *)
(* Option<T> is modelled as a set: None == {} and Some(x) == {x}.          *)
(***************************************************************************)
EXTENDS Integers, Sequences, FiniteSets, TLC

None == {}
Some(x) == {x}
Unwrap(o) == CHOOSE x \in o : TRUE

(***************************************************************************)
(* Characters.                                                             *)
(***************************************************************************)
DecDigits == <<"0", "1", "2", "3", "4", "5", "6", "7", "8", "9">>
LowerHex == <<"a", "b", "c", "d", "e", "f">>
UpperHex == <<"A", "B", "C", "D", "E", "F">>

Range(f) == {f[i] : i \in DOMAIN f}

\* The byte 0xE9: HeaderValue accepts it (obs-text), HeaderValue::to_str does not.
ObsText == "<E9>"
Tab == "<TAB>"

\* The visible ASCII characters (32..126) that occur in the modelled values.
VisibleAscii ==
    Range(DecDigits) \cup Range(LowerHex) \cup Range(UpperHex)
        \cup {" ", ".", ":", ",", "[", "]", "%", "-", "n", "o", "t", "i", "p"}

\* char::to_digit(radix): the digit's value, or None.  The values of the
\* characters are tabulated once.
IndexOf(seq, c) == CHOOSE i \in DOMAIN seq : seq[i] = c
DigitValue(c) ==
    IF c \in Range(DecDigits) THEN Some(IndexOf(DecDigits, c) - 1)
    ELSE IF c \in Range(LowerHex) THEN Some(IndexOf(LowerHex, c) + 9)
    ELSE IF c \in Range(UpperHex) THEN Some(IndexOf(UpperHex, c) + 9)
    ELSE None
DigitValues == [c \in VisibleAscii \cup {Tab, ObsText} |-> DigitValue(c)]
BelowRadix(v, radix) == IF v # None /\ Unwrap(v) < radix THEN v ELSE None
ToDigit(c, radix) == BelowRadix(DigitValues[c], radix)

\* char::is_whitespace restricted to the bytes a HeaderValue can hold.
IsWhitespace(c) == c \in {" ", Tab}

(***************************************************************************)
(* std::net::parser::Parser, as IpAddr::from_str and SocketAddr::from_str  *)
(* run it.  A parser position is an index into the sequence; every read    *)
(* returns [ok, val, pos] and leaves pos unchanged on failure              *)
(* (read_atomically).  Each step of a read is an operator that takes the   *)
(* previous step's result, as `?` chains them in the source.               *)
(***************************************************************************)
Fail(pos) == [ok |-> FALSE, val |-> 0, pos |-> pos]
Ok(val, pos) == [ok |-> TRUE, val |-> val, pos |-> pos]

PeekChar(s, pos) == IF pos <= Len(s) THEN Some(s[pos]) ELSE None

ReadGivenChar(s, pos, c) ==
    IF pos <= Len(s) /\ s[pos] = c THEN Ok(c, pos + 1) ELSE Fail(pos)

\* read_separator's first half: the separator is read before every group but
\* the first.
ReadSeparator(s, pos, sep, index) ==
    IF index > 0 THEN ReadGivenChar(s, pos, sep) ELSE Ok(sep, pos)

U8Max == 2^8 - 1
U16Max == 2^16 - 1
\* u32::MAX = 4294967295 as decimal digits: it exceeds the checker's integers, so
\* a u32 is read as its digit string and compared digit by digit.
U32MaxDigits == <<4, 2, 9, 4, 9, 6, 7, 2, 9, 5>>

\* The while loop of read_number: consume digits, checked_mul/checked_add
\* against the integer type's maximum, at most max_digits digits.
RECURSIVE ReadDigits(_, _, _, _, _, _, _)
DigitStep(s, pos, radix, max_digits, max_val, result, digit_count, d) ==
    IF d = None
    THEN [ok |-> TRUE, val |-> result, pos |-> pos, count |-> digit_count]
    ELSE IF result * radix > max_val
    THEN [ok |-> FALSE, val |-> 0, pos |-> pos, count |-> digit_count]
    ELSE IF result * radix + Unwrap(d) > max_val
    THEN [ok |-> FALSE, val |-> 0, pos |-> pos, count |-> digit_count]
    ELSE IF max_digits # None /\ digit_count + 1 > Unwrap(max_digits)
    THEN [ok |-> FALSE, val |-> 0, pos |-> pos, count |-> digit_count]
    ELSE ReadDigits(s, pos + 1, radix, max_digits, max_val,
                    result * radix + Unwrap(d), digit_count + 1)

ReadDigits(s, pos, radix, max_digits, max_val, result, digit_count) ==
    DigitStep(s, pos, radix, max_digits, max_val, result, digit_count,
              IF pos <= Len(s) THEN ToDigit(s[pos], radix) ELSE None)

NumberRead(pos, allow_zero_prefix, has_leading_zero, r) ==
    IF ~r.ok THEN Fail(pos)
    ELSE IF r.count = 0 THEN Fail(pos)
    ELSE IF ~allow_zero_prefix /\ has_leading_zero /\ r.count > 1 THEN Fail(pos)
    ELSE Ok(r.val, r.pos)

ReadNumber(s, pos, radix, max_digits, allow_zero_prefix, max_val) ==
    NumberRead(pos, allow_zero_prefix, PeekChar(s, pos) = Some("0"),
               ReadDigits(s, pos, radix, max_digits, max_val, 0, 0))

\* read_ipv4_addr: four decimal groups of at most 3 digits, no octal-looking
\* zero prefix, separated by '.'.
RECURSIVE ReadIpv4Groups(_, _, _, _, _)
Ipv4GroupRead(s, start, i, groups, num) ==
    IF ~num.ok THEN Fail(start)
    ELSE ReadIpv4Groups(s, start, num.pos, i + 1, Append(groups, num.val))

Ipv4SeparatorRead(s, start, i, groups, sep) ==
    IF ~sep.ok THEN Fail(start)
    ELSE Ipv4GroupRead(s, start, i, groups,
                       ReadNumber(s, sep.pos, 10, Some(3), FALSE, U8Max))

ReadIpv4Groups(s, start, pos, i, groups) ==
    IF i = 4 THEN Ok([v |-> 4, segs |-> groups], pos)
    ELSE Ipv4SeparatorRead(s, start, i, groups, ReadSeparator(s, pos, ".", i))

ReadIpv4Addr(s, pos) == ReadIpv4Groups(s, pos, pos, 0, <<>>)

\* read_groups of read_ipv6_addr: up to `limit` 16-bit groups separated by ':',
\* the last two of which may be an embedded IPv4 address.  The result is
\* [n, ipv4, groups, pos]: the number of groups read, whether an embedded IPv4
\* address ended them, the groups, and the position after them.
RECURSIVE ReadGroups(_, _, _, _, _)
GroupsOfIpv4(octets) ==
    <<octets[1] * 256 + octets[2], octets[3] * 256 + octets[4]>>

GroupRead(s, pos, limit, i, groups, group) ==
    IF group.ok
    THEN ReadGroups(s, group.pos, limit, i + 1, Append(groups, group.val))
    ELSE [n |-> i, ipv4 |-> FALSE, groups |-> groups, pos |-> pos]

EmbeddedIpv4Read(s, pos, limit, i, groups, sep, ipv4) ==
    IF ipv4.ok
    THEN [n |-> i + 2, ipv4 |-> TRUE, pos |-> ipv4.pos,
          groups |-> groups \o GroupsOfIpv4(ipv4.val.segs)]
    ELSE GroupRead(s, pos, limit, i, groups,
                   IF sep.ok THEN ReadNumber(s, sep.pos, 16, Some(4), TRUE, U16Max)
                   ELSE Fail(pos))

GroupSeparatorRead(s, pos, limit, i, groups, sep) ==
    EmbeddedIpv4Read(s, pos, limit, i, groups, sep,
                     IF i < limit - 1 /\ sep.ok THEN ReadIpv4Addr(s, sep.pos)
                     ELSE Fail(pos))

ReadGroups(s, pos, limit, i, groups) ==
    IF i >= limit THEN [n |-> i, ipv4 |-> FALSE, groups |-> groups, pos |-> pos]
    ELSE GroupSeparatorRead(s, pos, limit, i, groups, ReadSeparator(s, pos, ":", i))

Zeros(n) == [i \in 1..n |-> 0]

\* The tail after `::` is copied to the end of the eight groups.
Ipv6TailRead(head, tail) ==
    Ok([v |-> 6,
        segs |-> head.groups \o Zeros(8 - head.n - tail.n) \o tail.groups],
       tail.pos)

Ipv6SecondColonRead(s, start, head, c2) ==
    IF ~c2.ok THEN Fail(start)
    ELSE Ipv6TailRead(head, ReadGroups(s, c2.pos, 8 - (head.n + 1), 0, <<>>))

Ipv6FirstColonRead(s, start, head, c1) ==
    IF ~c1.ok THEN Fail(start)
    ELSE Ipv6SecondColonRead(s, start, head, ReadGivenChar(s, c1.pos, ":"))

Ipv6HeadRead(s, start, head) ==
    IF head.n = 8 THEN Ok([v |-> 6, segs |-> head.groups], head.pos)
    ELSE IF head.ipv4 THEN Fail(start)
    ELSE Ipv6FirstColonRead(s, start, head, ReadGivenChar(s, head.pos, ":"))

ReadIpv6Addr(s, pos) == Ipv6HeadRead(s, pos, ReadGroups(s, pos, 8, 0, <<>>))

\* read_ip_addr: read_ipv4_addr().or_else(read_ipv6_addr)
OrElseIpv6(s, pos, v4) == IF v4.ok THEN v4 ELSE ReadIpv6Addr(s, pos)
ReadIpAddr(s, pos) == OrElseIpv6(s, pos, ReadIpv4Addr(s, pos))

\* read_port: ':' then read_number(10, None, true) into a u16.
PortColonRead(s, start, c) ==
    IF ~c.ok THEN Fail(start) ELSE ReadNumber(s, c.pos, 10, None, TRUE, U16Max)
PortRead(start, n) == IF n.ok THEN n ELSE Fail(start)
ReadPort(s, pos) == PortRead(pos, PortColonRead(s, pos, ReadGivenChar(s, pos, ":")))

\* The end of the run of decimal digits that starts at pos.
RECURSIVE DigitRunEnd(_, _)
DigitRunEnd(s, pos) ==
    IF pos <= Len(s) /\ ToDigit(s[pos], 10) # None THEN DigitRunEnd(s, pos + 1) ELSE pos

RECURSIVE StripZeros(_)
StripZeros(ds) == IF ds # <<>> /\ Head(ds) = 0 THEN StripZeros(Tail(ds)) ELSE ds

\* a <= b for digit strings of equal length.
RECURSIVE DigitsLeq(_, _)
DigitsLeq(a, b) ==
    IF a = <<>> THEN TRUE
    ELSE IF Head(a) # Head(b) THEN Head(a) < Head(b)
    ELSE DigitsLeq(Tail(a), Tail(b))

FitsU32(ds) ==
    \/ Len(ds) < Len(U32MaxDigits)
    \/ Len(ds) = Len(U32MaxDigits) /\ DigitsLeq(ds, U32MaxDigits)

DigitsBetween(s, from, end) ==
    StripZeros([i \in 1..(end - from) |-> Unwrap(ToDigit(s[from + i - 1], 10))])

\* read_scope_id: '%' then read_number(10, None, true) into a u32.
ScopeDigitsRead(s, start, from, end) ==
    IF end > from /\ FitsU32(DigitsBetween(s, from, end))
    THEN Ok(DigitsBetween(s, from, end), end) ELSE Fail(start)
ScopePercentRead(s, start, c) ==
    IF ~c.ok THEN Fail(start) ELSE ScopeDigitsRead(s, start, c.pos, DigitRunEnd(s, c.pos))
ReadScopeId(s, pos) == ScopePercentRead(s, pos, ReadGivenChar(s, pos, "%"))

\* read_socket_addr_v4: read_ipv4_addr()? then read_port()?
SocketPortRead(start, addr, port) ==
    IF ~port.ok THEN Fail(start)
    ELSE Ok([ip |-> addr, port |-> port.val], port.pos)
SocketV4AddrRead(s, start, addr) ==
    IF ~addr.ok THEN Fail(start)
    ELSE SocketPortRead(start, addr.val, ReadPort(s, addr.pos))
ReadSocketAddrV4(s, pos) == SocketV4AddrRead(s, pos, ReadIpv4Addr(s, pos))

\* read_socket_addr_v6: '[' read_ipv6_addr()? read_scope_id().unwrap_or(0) ']'
\* then read_port()?
SocketV6CloseRead(s, start, addr, close) ==
    IF ~close.ok THEN Fail(start)
    ELSE SocketPortRead(start, addr, ReadPort(s, close.pos))
SocketV6ScopeRead(s, start, addr, scope) ==
    SocketV6CloseRead(s, start, addr, ReadGivenChar(s, scope.pos, "]"))
SocketV6AddrRead(s, start, addr) ==
    IF ~addr.ok THEN Fail(start)
    ELSE SocketV6ScopeRead(s, start, addr.val, ReadScopeId(s, addr.pos))
SocketV6OpenRead(s, start, open) ==
    IF ~open.ok THEN Fail(start)
    ELSE SocketV6AddrRead(s, start, ReadIpv6Addr(s, open.pos))
ReadSocketAddrV6(s, pos) == SocketV6OpenRead(s, pos, ReadGivenChar(s, pos, "["))

\* read_socket_addr: read_socket_addr_v4().or_else(read_socket_addr_v6)
OrElseSocketV6(s, pos, v4) == IF v4.ok THEN v4 ELSE ReadSocketAddrV6(s, pos)
ReadSocketAddr(s, pos) == OrElseSocketV6(s, pos, ReadSocketAddrV4(s, pos))

\* parse_with: the inner read must succeed and consume the whole input.
ParseWith(s, r) == IF r.ok /\ r.pos = Len(s) + 1 THEN Some(r.val) ELSE None

\* <IpAddr as FromStr>::from_str(s).ok() and <SocketAddr as FromStr>::from_str(s).ok()
IpAddrFromStr(s) == ParseWith(s, ReadIpAddr(s, 1))
SocketAddrFromStr(s) == ParseWith(s, ReadSocketAddr(s, 1))

(***************************************************************************)
(* real_ip.rs: parse_ip, HEADERS, get_ip_from_parts.                       *)
(***************************************************************************)
\* HeaderValue::to_str: the text, if every byte is visible ASCII or a tab.
ToStr(val) ==
    IF \A i \in DOMAIN val : val[i] \in VisibleAscii \cup {Tab} THEN Some(val) ELSE None

\* str::trim
RECURSIVE TrimStart(_)
TrimStart(s) == IF s # <<>> /\ IsWhitespace(Head(s)) THEN TrimStart(Tail(s)) ELSE s

RECURSIVE TrimEnd(_)
TrimEnd(s) ==
    IF s # <<>> /\ IsWhitespace(s[Len(s)]) THEN TrimEnd(SubSeq(s, 1, Len(s) - 1)) ELSE s

Trim(s) == TrimEnd(TrimStart(s))

\* s.split(',').next(): the text before the first comma (always Some).
SplitNext(s) ==
    LET commas == {i \in DOMAIN s : s[i] = ","}
    IN  IF commas = {} THEN Some(s)
        ELSE Some(SubSeq(s, 1, (CHOOSE i \in commas : \A j \in commas : i <= j) - 1))

\* The last comma-delimited entry.
SplitLast(s) ==
    LET commas == {i \in DOMAIN s : s[i] = ","}
    IN  IF commas = {} THEN s
        ELSE SubSeq(s, (CHOOSE i \in commas : \A j \in commas : i >= j) + 1, Len(s))

\* `if let Ok(sock) = SocketAddr::from_str(first) { return Some(sock.ip()) }`
\* and then `IpAddr::from_str(first).ok()`.
SocketOrIp(first, sock) ==
    IF sock # None THEN Some(Unwrap(sock).ip) ELSE IpAddrFromStr(first)

ParseFirst(first, allow_port) ==
    SocketOrIp(first, IF allow_port THEN SocketAddrFromStr(first) ELSE None)

\* Mutant: the last entry of the hop list is taken instead of the first.
parse_ip_last_hop(val, allow_port) ==
    IF ToStr(val) = None THEN None
    ELSE ParseFirst(Trim(SplitLast(Trim(val))), allow_port)

\* Mutant: `IP:port` is accepted whatever the header's allow_port flag says.
parse_ip_any_port(val, allow_port) ==
    IF ToStr(val) = None THEN None
    ELSE ParseFirst(Trim(Unwrap(SplitNext(Trim(val)))), TRUE)

SplitRead(next, allow_port) ==
    IF next = None THEN None ELSE ParseFirst(Trim(Unwrap(next)), allow_port)

TextRead(t, allow_port) ==
    IF t = None THEN None ELSE SplitRead(SplitNext(Trim(Unwrap(t))), allow_port)

parse_ip(val, allow_port) == TextRead(ToStr(val), allow_port)

(***************************************************************************)
(* The header values that the requests of the model carry.                 *)
(***************************************************************************)
\* "1.2.3.4"
TxtA == <<"1", ".", "2", ".", "3", ".", "4">>
\* " 2001:db8::1\t"
TxtB == <<" ", "2", "0", "0", "1", ":", "d", "b", "8", ":", ":", "1", Tab>>
\* "not-an-ip"
TxtMalformed == <<"n", "o", "t", "-", "a", "n", "-", "i", "p">>
\* " \t"
TxtBlank == <<" ", Tab>>
\* "203.0.113.5:443"
TxtPort == <<"2", "0", "3", ".", "0", ".", "1", "1", "3", ".", "5", ":", "4", "4", "3">>
\* "2001:db8:abcd:1234:5678:9abc:def0:1111"
TxtFull ==
    <<"2", "0", "0", "1", ":", "d", "b", "8", ":", "a", "b", "c", "d", ":",
      "1", "2", "3", "4", ":", "5", "6", "7", "8", ":", "9", "a", "b", "c", ":",
      "d", "e", "f", "0", ":", "1", "1", "1", "1">>
\* The values given to get_ip_from_parts directly, and those of a request's life.
ResolveValues == {TxtA, TxtB, TxtMalformed, TxtBlank, TxtPort}
LifeValues == {TxtFull, TxtMalformed}

HEADERS ==
    << [name |-> "cf-connecting-ip", allow_port |-> FALSE],
       [name |-> "x-cluster-client-ip", allow_port |-> FALSE],
       [name |-> "fly-client-ip", allow_port |-> FALSE],
       [name |-> "fastly-client-ip", allow_port |-> FALSE],
       [name |-> "cloudfront-viewer-address", allow_port |-> TRUE],
       [name |-> "x-real-ip", allow_port |-> FALSE],
       [name |-> "x-forwarded-for", allow_port |-> FALSE],
       [name |-> "x-original-forwarded-for", allow_port |-> FALSE],
       [name |-> "true-client-ip", allow_port |-> FALSE],
       [name |-> "client-ip", allow_port |-> FALSE] >>

\* The header names a request of the model can carry: the recognized ones and
\* one that the table does not list.
HeaderNames == {HEADERS[i].name : i \in DOMAIN HEADERS} \cup {"forwarded"}

\* http::request::Parts: the header map (one value per name, as HeaderMap::get
\* sees it) and the type-keyed extensions, of which two slots matter.
Parts(h, e) == [headers |-> h, extensions |-> e]
EmptyExtensions == [RealIp |-> None, ConnectInfo |-> None]

VARIABLES
    tokio,       \* the crate is built with feature "tokio" (fixed for a run)
    layered,     \* the router wraps the handler in RealIpLayer
    headers,     \* parts.headers: header name -> Option<HeaderValue>
    extensions,  \* parts.extensions: the RealIp and ConnectInfo<SocketAddr> slots
    pc,          \* where the request is: "recv", "handler", "resolved", "idle"
    forwarded,   \* how many times RealIpService called its inner service
    out,         \* what the last extractor call returned to the handler
    nExtract,    \* extractor calls made by the handler so far
    ret,         \* what a direct call of get_ip_from_parts returned
    ip,          \* the RealIp given to the privacy mask
    masked,      \* Option<RealIpPrivacyMask>: the mask's last result
    nMask,       \* conversions applied so far
    hops,        \* the hop list a header value is built from
    allow_port,  \* parse_ip's flag
    parsed       \* Option<Option<IpAddr>>: parse_ip's result, once called

reqVars == <<tokio, layered, headers, extensions, pc, forwarded, out, nExtract, ret>>
maskVars == <<ip, masked, nMask>>
parseVars == <<hops, allow_port, parsed>>
vars == <<reqVars, maskVars, parseVars>>

\* Mutant: the table is walked from its last entry to its first.
RECURSIVE WalkHeadersReversed(_, _)
WalkHeadersReversed(parts, i) ==
    IF i > Len(HEADERS) THEN None
    ELSE LET rule == HEADERS[Len(HEADERS) + 1 - i]
             val == parts.headers[rule.name]
             found == IF val # None THEN parse_ip(Unwrap(val), rule.allow_port) ELSE None
         IN  IF found # None THEN found ELSE WalkHeadersReversed(parts, i + 1)

\* Mutant: a present header that does not parse ends the walk (`?` on parse_ip).
RECURSIVE WalkHeadersStrict(_, _)
WalkHeadersStrict(parts, i) ==
    IF i > Len(HEADERS) THEN None
    ELSE LET rule == HEADERS[i]
             val == parts.headers[rule.name]
         IN  IF val # None
             THEN parse_ip(Unwrap(val), rule.allow_port)
             ELSE WalkHeadersStrict(parts, i + 1)

\* The `for (header, allow_port) in &HEADERS` loop, from entry i on: the first
\* present header whose value parses.
RECURSIVE WalkHeaders(_, _)
WalkHeaders(parts, i) ==
    IF i > Len(HEADERS) THEN None
    ELSE LET rule == HEADERS[i]
             val == parts.headers[rule.name]
             found == IF val # None THEN parse_ip(Unwrap(val), rule.allow_port) ELSE None
         IN  IF found # None THEN found ELSE WalkHeaders(parts, i + 1)

\* Mutant: the fallback returns nothing.
get_ip_from_parts_no_fallback(parts) == WalkHeaders(parts, 1)

get_ip_from_parts(parts) ==
    LET found == WalkHeaders(parts, 1)
    IN  IF found # None THEN found
        ELSE IF tokio /\ parts.extensions.ConnectInfo # None
        THEN Some(Unwrap(parts.extensions.ConnectInfo).ip)
        ELSE None

(***************************************************************************)
(* impl From<RealIp> for RealIpPrivacyMask.  RealIp and RealIpPrivacyMask  *)
(* are repr(transparent) wrappers: both are modelled by the wrapped IpAddr.*)
(***************************************************************************)
\* Mutant: segments 3..7 are zeroed (an off-by-one in the prefix length).
From_off_by_one(real_ip) ==
    IF real_ip.v = 4 THEN real_ip
    ELSE [v |-> 6, segs |-> [i \in 1..8 |-> IF i - 1 >= 3 THEN 0 ELSE real_ip.segs[i]]]

From(real_ip) ==
    IF real_ip.v = 4 THEN real_ip
    ELSE [v |-> 6,
          segs |-> [i \in 1..8 |-> IF i - 1 \in {4, 5, 6, 7} THEN 0 ELSE real_ip.segs[i]]]

(***************************************************************************)
(* The extractors.  Each returns the Result, the parts as it leaves them   *)
(* (it takes &mut Parts), and whether it called get_ip_from_parts.         *)
(***************************************************************************)
IpAddrRejection == "IpAddrRejection"
BAD_REQUEST == 400
into_response(rejection) == BAD_REQUEST

OkResult(x) == [tag |-> "Ok", val |-> x]
ErrResult(e) == [tag |-> "Err", val |-> e]
\* Option::ok_or
ok_or(o, e) == IF o # None THEN OkResult(Unwrap(o)) ELSE ErrResult(e)
\* Option::map with Into::into, the conversion From<RealIp> for RealIpPrivacyMask
map_into(o) == IF o # None THEN Some(From(Unwrap(o))) ELSE None

\* Mutant: the extension is not looked up; the headers are parsed every time.
RealIp_from_request_parts_uncached(parts) ==
    [res |-> ok_or(get_ip_from_parts(parts), IpAddrRejection),
     parts |-> parts, resolved |-> TRUE]

RealIp_from_request_parts(parts) ==
    IF parts.extensions.RealIp # None
    THEN [res |-> OkResult(Unwrap(parts.extensions.RealIp)),
          parts |-> parts, resolved |-> FALSE]
    ELSE [res |-> ok_or(get_ip_from_parts(parts), IpAddrRejection),
          parts |-> parts, resolved |-> TRUE]

\* Mutant: the masked address is stored in the extensions for later calls.
RealIpPrivacyMask_from_request_parts_caching(parts) ==
    LET found == IF parts.extensions.RealIp # None THEN parts.extensions.RealIp
                 ELSE get_ip_from_parts(parts)
        m == map_into(found)
    IN  [res |-> ok_or(m, IpAddrRejection),
         parts |-> IF m # None
                   THEN [parts EXCEPT !.extensions.RealIp = m] ELSE parts,
         resolved |-> parts.extensions.RealIp = None]

RealIpPrivacyMask_from_request_parts(parts) ==
    IF parts.extensions.RealIp # None
    THEN [res |-> OkResult(From(Unwrap(parts.extensions.RealIp))),
          parts |-> parts, resolved |-> FALSE]
    ELSE [res |-> ok_or(map_into(get_ip_from_parts(parts)), IpAddrRejection),
          parts |-> parts, resolved |-> TRUE]

(***************************************************************************)
(* RealIpService::call: the parts handed to the inner service and the      *)
(* number of calls of the inner service.                                   *)
(***************************************************************************)
\* Mutant: a request whose address cannot be resolved is not forwarded.
call_rejecting(parts) ==
    LET found == get_ip_from_parts(parts)
    IN  IF found # None
        THEN [parts |-> [parts EXCEPT !.extensions.RealIp = found], inner_calls |-> 1]
        ELSE [parts |-> parts, inner_calls |-> 0]

call(parts) ==
    LET found == get_ip_from_parts(parts)
    IN  [parts |-> IF found # None
                   THEN [parts EXCEPT !.extensions.RealIp = found] ELSE parts,
         inner_calls |-> 1]

(***************************************************************************)
(* Inputs.  Every text is listed with the address a reader of the text     *)
(* expects: `bare` as a bare IP address, `sock` as the address part of an  *)
(* `address:port` socket address (None where the text is not of that form).*)
(***************************************************************************)
V4(a, b, c, d) == [v |-> 4, segs |-> <<a, b, c, d>>]
V6(a, b, c, d, e, f, g, h) == [v |-> 6, segs |-> <<a, b, c, d, e, f, g, h>>]

\* "9.9.9.9"
TokFirst == <<"9", ".", "9", ".", "9", ".", "9">>
\* "10.0.0.1"
TokLater == <<"1", "0", ".", "0", ".", "0", ".", "1">>
\* "2001:DB8::1"
TokV6 == <<"2", "0", "0", "1", ":", "D", "B", "8", ":", ":", "1">>
\* "[2001:db8::1]:443"
TokV6Port ==
    <<"[", "2", "0", "0", "1", ":", "d", "b", "8", ":", ":", "1", "]", ":", "4", "4", "3">>
\* "01.2.3.4"
TokOctal == <<"0", "1", ".", "2", ".", "3", ".", "4">>
\* "caf\xE9"
TokObs == <<"c", "a", "f", ObsText>>
\* ""
TokEmpty == <<>>

AddrA == V4(1, 2, 3, 4)
\* 2001:db8::1
AddrB == V6(8193, 3512, 0, 0, 0, 0, 0, 1)
AddrPort == V4(203, 0, 113, 5)
\* 2001:db8:abcd:1234:5678:9abc:def0:1111
AddrFull == V6(8193, 3512, 43981, 4660, 22136, 39612, 57072, 4369)
\* 2001:db8:abcd:1234::
AddrFullMasked == V6(8193, 3512, 43981, 4660, 0, 0, 0, 0)

Meaning(text) ==
    CASE text = TxtA -> [bare |-> Some(AddrA), sock |-> None, text |-> TRUE]
      [] text = TxtB -> [bare |-> Some(AddrB), sock |-> None, text |-> TRUE]
      [] text = TxtMalformed -> [bare |-> None, sock |-> None, text |-> TRUE]
      [] text = TxtBlank -> [bare |-> None, sock |-> None, text |-> TRUE]
      [] text = TxtPort -> [bare |-> None, sock |-> Some(AddrPort), text |-> TRUE]
      [] text = TxtFull -> [bare |-> Some(AddrFull), sock |-> None, text |-> TRUE]
      [] text = TokFirst -> [bare |-> Some(V4(9, 9, 9, 9)), sock |-> None, text |-> TRUE]
      [] text = TokLater -> [bare |-> Some(V4(10, 0, 0, 1)), sock |-> None, text |-> TRUE]
      [] text = TokV6 -> [bare |-> Some(AddrB), sock |-> None, text |-> TRUE]
      [] text = TokV6Port -> [bare |-> None, sock |-> Some(AddrB), text |-> TRUE]
      [] text = TokOctal -> [bare |-> None, sock |-> None, text |-> TRUE]
      [] text = TokObs -> [bare |-> None, sock |-> None, text |-> FALSE]
      [] text = TokEmpty -> [bare |-> None, sock |-> None, text |-> TRUE]

\* The address a header with this text yields under a rule with this flag.
Yield(text, port_allowed) ==
    LET m == Meaning(text)
    IN  IF port_allowed /\ m.sock # None THEN m.sock ELSE m.bare

\* Bounds of the model.
MaxPresent == 2       \* headers present in a request given to get_ip_from_parts
MaxLifeHeaders == 1   \* headers present at a time in a request's life cycle
MaxExtractions == 2   \* extractor calls per request
MaxMasks == 2         \* conversions applied to one address
MaxHops == 2          \* entries of a hop list

RecognizedNames == {HEADERS[i].name : i \in DOMAIN HEADERS}

\* The header maps with at most `max` of `names` present, values from `values`.
Requests(names, values, max) ==
    UNION { { [n \in HeaderNames |-> IF n \in S THEN Some(f[n]) ELSE None] :
              f \in [S -> values] } :
            S \in {T \in SUBSET names : Cardinality(T) <= max} }

Present(h) == {n \in HeaderNames : h[n] # None}

\* ConnectInfo<SocketAddr>: absent, or the peer 192.0.2.1:5000.
PeerAddr == V4(192, 0, 2, 1)
Peers == {None, Some([ip |-> PeerAddr, port |-> 5000])}

Tokens ==
    {TokFirst, TokLater, TokV6, TokV6Port, TokOctal, TokObs, TokEmpty, TxtPort,
     TxtMalformed}
Hops == [tok : Tokens, padded : BOOLEAN]
HopLists == UNION {[1..n -> Hops] : n \in 1..MaxHops}

\* The header value a chain of proxies writes for a hop list: the entries joined
\* by commas, a padded entry with blanks around it.
HopText(hop) == IF hop.padded THEN <<" ">> \o hop.tok \o <<Tab, " ">> ELSE hop.tok
RECURSIVE HeaderValueOf(_)
HeaderValueOf(list) ==
    IF Len(list) = 1 THEN HopText(list[1])
    ELSE HopText(Head(list)) \o <<",">> \o HeaderValueOf(Tail(list))

SegValues == {0, 2^16 - 1}
MaskInputs ==
    {V4(1, 2, 3, 4), V4(255, 255, 255, 255), AddrFull}
        \cup {[v |-> 6, segs |-> s] : s \in [1..8 -> SegValues]}

NoOut == [kind |-> "none"]

(***************************************************************************)
(* The life of one request: Spec.                                          *)
(***************************************************************************)
IdleMask == ip = AddrA /\ masked = None /\ nMask = 0
IdleParse == hops = <<>> /\ allow_port = FALSE /\ parsed = None

Init ==
    /\ tokio \in BOOLEAN
    /\ layered \in BOOLEAN
    /\ headers \in Requests(HeaderNames, LifeValues, MaxLifeHeaders)
    /\ \E peer \in Peers : extensions = [RealIp |-> None, ConnectInfo |-> peer]
    /\ pc = "recv"
    /\ forwarded = 0
    /\ out = NoOut
    /\ nExtract = 0
    /\ ret = None
    /\ IdleMask
    /\ IdleParse

\* RealIpService::call on the request; the inner service is the handler.
Call ==
    /\ pc = "recv"
    /\ layered
    /\ LET r == call(Parts(headers, extensions))
       IN  /\ headers' = r.parts.headers
           /\ extensions' = r.parts.extensions
           /\ forwarded' = forwarded + r.inner_calls
           /\ pc' = IF r.inner_calls > 0 THEN "handler" ELSE "dropped"
    /\ UNCHANGED <<tokio, layered, out, nExtract, ret, maskVars, parseVars>>

\* Without the layer the request reaches the handler as it arrived.
Route ==
    /\ pc = "recv"
    /\ ~layered
    /\ pc' = "handler"
    /\ UNCHANGED <<tokio, layered, headers, extensions, forwarded, out, nExtract, ret,
                   maskVars, parseVars>>

Extract(kind, r) ==
    /\ headers' = r.parts.headers
    /\ extensions' = r.parts.extensions
    /\ out' = [kind |-> kind, res |-> r.res, resolved |-> r.resolved, after |-> out.kind]
    /\ nExtract' = nExtract + 1
    /\ UNCHANGED <<tokio, layered, pc, forwarded, ret, maskVars, parseVars>>

\* The handler extracts a RealIp.
ExtractRealIp ==
    /\ pc = "handler"
    /\ nExtract < MaxExtractions
    /\ Extract("RealIp", RealIp_from_request_parts(Parts(headers, extensions)))

\* The handler extracts a RealIpPrivacyMask.
ExtractRealIpPrivacyMask ==
    /\ pc = "handler"
    /\ nExtract < MaxExtractions
    /\ Extract("RealIpPrivacyMask",
               RealIpPrivacyMask_from_request_parts(Parts(headers, extensions)))

\* Code that holds the &mut Parts changes the headers between extractions.
InsertHeader ==
    /\ pc = "handler"
    /\ \E n \in HeaderNames, val \in LifeValues :
         /\ headers[n] # Some(val)
         /\ Cardinality(Present(headers) \cup {n}) <= MaxLifeHeaders
         /\ headers' = [headers EXCEPT ![n] = Some(val)]
    /\ UNCHANGED <<tokio, layered, extensions, pc, forwarded, out, nExtract, ret,
                   maskVars, parseVars>>

RemoveHeader ==
    /\ pc = "handler"
    /\ \E n \in Present(headers) : headers' = [headers EXCEPT ![n] = None]
    /\ UNCHANGED <<tokio, layered, extensions, pc, forwarded, out, nExtract, ret,
                   maskVars, parseVars>>

Next ==
    \/ Call
    \/ Route
    \/ ExtractRealIp
    \/ ExtractRealIpPrivacyMask
    \/ InsertHeader
    \/ RemoveHeader

Spec == Init /\ [][Next]_vars

(***************************************************************************)
(* get_ip_from_parts called on a request: SpecResolve.                     *)
(***************************************************************************)
InitResolve ==
    /\ tokio \in BOOLEAN
    /\ layered = FALSE
    /\ headers \in Requests(RecognizedNames, ResolveValues, MaxPresent)
    /\ \E peer \in Peers : extensions = [RealIp |-> None, ConnectInfo |-> peer]
    /\ pc = "recv"
    /\ forwarded = 0
    /\ out = NoOut
    /\ nExtract = 0
    /\ ret = None
    /\ IdleMask
    /\ IdleParse

Resolve ==
    /\ pc = "recv"
    /\ ret' = get_ip_from_parts(Parts(headers, extensions))
    /\ pc' = "resolved"
    /\ UNCHANGED <<tokio, layered, headers, extensions, forwarded, out, nExtract,
                   maskVars, parseVars>>

NextResolve == Resolve

SpecResolve == InitResolve /\ [][NextResolve]_vars

(***************************************************************************)
(* parse_ip called on a header value: SpecParse.                           *)
(***************************************************************************)
IdleRequest ==
    /\ tokio = FALSE
    /\ layered = FALSE
    /\ headers = [n \in HeaderNames |-> None]
    /\ extensions = EmptyExtensions
    /\ pc = "idle"
    /\ forwarded = 0
    /\ out = NoOut
    /\ nExtract = 0
    /\ ret = None

InitParse ==
    /\ hops \in HopLists
    /\ allow_port \in BOOLEAN
    /\ parsed = None
    /\ IdleRequest
    /\ IdleMask

ParseIp ==
    /\ parsed = None
    /\ parsed' = Some(parse_ip(HeaderValueOf(hops), allow_port))
    /\ UNCHANGED <<hops, allow_port, reqVars, maskVars>>

NextParse == ParseIp

SpecParse == InitParse /\ [][NextParse]_vars

(***************************************************************************)
(* The privacy mask applied to an address, and again to its result:        *)
(* SpecMask.                                                               *)
(***************************************************************************)
InitMask ==
    /\ ip \in MaskInputs
    /\ masked = None
    /\ nMask = 0
    /\ IdleRequest
    /\ IdleParse

\* RealIpPrivacyMask::from(ip)
MaskIp ==
    /\ masked = None
    /\ nMask < MaxMasks
    /\ masked' = Some(From(ip))
    /\ nMask' = nMask + 1
    /\ UNCHANGED <<ip, reqVars, parseVars>>

\* RealIpPrivacyMask::from(masked.0): the mask of an already masked address.
MaskAgain ==
    /\ masked # None
    /\ nMask < MaxMasks
    /\ masked' = Some(From(Unwrap(masked)))
    /\ nMask' = nMask + 1
    /\ UNCHANGED <<ip, reqVars, parseVars>>

NextMask == MaskIp \/ MaskAgain

SpecMask == InitMask /\ [][NextMask]_vars

(***************************************************************************)
(* What the properties refer to.                                           *)
(***************************************************************************)
\* The priority order of the recognized headers, highest first.
PriorityOrder ==
    <<"cf-connecting-ip", "x-cluster-client-ip", "fly-client-ip", "fastly-client-ip",
      "cloudfront-viewer-address", "x-real-ip", "x-forwarded-for",
      "x-original-forwarded-for", "true-client-ip", "client-ip">>

Ranks == DOMAIN PriorityOrder

\* The address the header of rank i holds, by the meaning of its text: port
\* syntax counts under cloudfront-viewer-address only.
HeaderYield(i) ==
    IF headers[PriorityOrder[i]] = None THEN None
    ELSE Yield(Unwrap(headers[PriorityOrder[i]]),
               PriorityOrder[i] = "cloudfront-viewer-address")

Yielding == {i \in Ranks : HeaderYield(i) # None}
Highest(S) == CHOOSE i \in S : \A j \in S : i <= j

PeerIp == IF extensions.ConnectInfo = None THEN None
          ELSE Some(Unwrap(extensions.ConnectInfo).ip)

CurrentParts == Parts(headers, extensions)
WithHeader(n, v) == Parts([headers EXCEPT ![n] = v], extensions)

\* The extractor's result is the IpAddrRejection, which answers HTTP 400.
Rejected(o) ==
    /\ o.res.tag = "Err"
    /\ o.res.val = IpAddrRejection
    /\ into_response(o.res.val) = 400

\* The step is an extractor call.
ExtractStep == nExtract' = nExtract + 1

(***************************************************************************)
(* C1.  Header precedence: when recognized headers hold valid addresses,   *)
(* get_ip_from_parts returns the address of the one highest in the         *)
(* priority order; the request that differs in every lower-priority header *)
(* (all removed, or all set to another valid address) and in the peer      *)
(* address resolves to the same address.                                   *)
(***************************************************************************)
\* The names of the headers below rank `top`.
LowerNames(top) == {PriorityOrder[j] : j \in (top + 1)..Len(PriorityOrder)}

\* The request with each header of `names` set to v, and with this peer.
WithLower(names, v, peer) ==
    Parts([n \in HeaderNames |-> IF n \in names THEN v ELSE headers[n]],
          [extensions EXCEPT !.ConnectInfo = peer])

C1_HeaderPrecedence ==
    (pc = "resolved" /\ Yielding # {}) =>
        LET top == Highest(Yielding)
            lower == LowerNames(top)
        IN  /\ ret = HeaderYield(top)
            /\ \A v \in {None, Some(TxtB)} :
                 \A peer \in Peers \ {extensions.ConnectInfo} :
                     get_ip_from_parts(WithLower(lower, v, peer)) = ret

C1_Witness ==
    /\ pc = "resolved"
    /\ headers["cf-connecting-ip"] = Some(TxtA)
    /\ headers["x-real-ip"] = Some(TxtB)
    /\ extensions.ConnectInfo # None
    /\ ret = Some(AddrA)

(***************************************************************************)
(* C3.  A recognized header whose value is malformed, empty or blank is    *)
(* treated as absent: the result is the result for the same request        *)
(* with that header removed.                                               *)
(***************************************************************************)
Unparseable(text) == Meaning(text).bare = None /\ Meaning(text).sock = None

C3_MalformedIsAbsent ==
    pc = "resolved" =>
        \A i \in Ranks :
            (headers[PriorityOrder[i]] # None
                /\ Unparseable(Unwrap(headers[PriorityOrder[i]]))) =>
                ret = get_ip_from_parts(WithHeader(PriorityOrder[i], None))

C3_Witness ==
    /\ pc = "resolved"
    /\ headers["cf-connecting-ip"] = Some(TxtMalformed)
    /\ headers["x-real-ip"] = Some(TxtA)
    /\ ret = Some(AddrA)

PortSyntax(text) == Meaning(text).sock # None

C8_PortOnlyCloudfront ==
    pc = "resolved" =>
        \A i \in Ranks :
            (/\ headers[PriorityOrder[i]] # None
             /\ PortSyntax(Unwrap(headers[PriorityOrder[i]]))
             /\ \A j \in Yielding : j >= i) =>
                IF PriorityOrder[i] = "cloudfront-viewer-address"
                THEN ret = Meaning(Unwrap(headers[PriorityOrder[i]])).sock
                ELSE IF Yielding # {}
                THEN ret = HeaderYield(Highest(Yielding))
                ELSE ret \in {None, PeerIp}

C8_Witness ==
    /\ pc = "resolved"
    /\ headers["cf-connecting-ip"] = Some(TxtPort)
    /\ headers["cloudfront-viewer-address"] = Some(TxtPort)
    /\ ret = Some(AddrPort)

(***************************************************************************)
(* C9.  Multi-hop list, as claimed: only the first comma-delimited entry,  *)
(* trimmed, decides the result, so parse_ip returns the address of the     *)
(* first entry when that entry is a valid address, and None when it is     *)
(* empty or malformed, whatever the later entries are.                     *)
(***************************************************************************)
FirstEntryYield == Yield(hops[1].tok, allow_port)

C9_FirstEntryOnly_Claimed == parsed # None => Unwrap(parsed) = FirstEntryYield

(***************************************************************************)
(* C9, amended.  For a header value that is valid text (every byte visible *)
(* ASCII or a tab) only the first comma-delimited entry, trimmed, decides  *)
(* the result; a value with any other byte, in whichever entry, yields     *)
(* None.                                                                   *)
(***************************************************************************)
AllText == \A k \in DOMAIN hops : Meaning(hops[k].tok).text

C9_FirstEntryOnly ==
    parsed # None =>
        Unwrap(parsed) = IF AllText THEN FirstEntryYield ELSE None

C9_Witness ==
    /\ Len(hops) = 2
    /\ hops[1] = [tok |-> TokFirst, padded |-> TRUE]
    /\ hops[2].tok = TokLater
    /\ ~allow_port
    /\ parsed = Some(Some(V4(9, 9, 9, 9)))

(***************************************************************************)
(* C7.  Privacy mask: the conversion returns an IPv4 address unchanged and *)
(* an IPv6 address with segments 0..3 kept and segments 4..7 zero, and the *)
(* mask of a masked address is the same address.                           *)
(***************************************************************************)
MaskOf(addr, m) ==
    IF addr.v = 4 THEN m = addr
    ELSE /\ m.v = 6
         /\ DOMAIN m.segs = 1..8
         /\ \A k \in 1..4 : m.segs[k] = addr.segs[k]
         /\ \A k \in 5..8 : m.segs[k] = 0

C7_PrivacyMask ==
    masked # None =>
        /\ MaskOf(ip, Unwrap(masked))
        /\ ip = AddrFull => Unwrap(masked) = AddrFullMasked

C7_Witness ==
    /\ ip = AddrFull
    /\ nMask = 2
    /\ masked = Some(AddrFullMasked)

(***************************************************************************)
(* C2.  Caching: once the middleware has stored a RealIp in the            *)
(* extensions, every extraction returns that address (masked by the        *)
(* masked extractor) without calling get_ip_from_parts, whatever the       *)
(* headers have become.                                                    *)
(***************************************************************************)
C2_CacheWins ==
    (out.kind # "none" /\ extensions.RealIp # None) =>
        /\ ~out.resolved
        /\ out.kind = "RealIp" => out.res = OkResult(Unwrap(extensions.RealIp))
        /\ out.kind = "RealIpPrivacyMask" =>
               /\ out.res.tag = "Ok"
               /\ MaskOf(Unwrap(extensions.RealIp), out.res.val)

C2_Witness ==
    /\ layered
    /\ extensions.RealIp = Some(AddrFull)
    /\ headers["cf-connecting-ip"] = Some(TxtMalformed)
    /\ get_ip_from_parts(CurrentParts) # Some(AddrFull)
    /\ out.kind = "RealIp"
    /\ out.after = "RealIpPrivacyMask"
    /\ out.res = OkResult(AddrFull)

(***************************************************************************)
(* C4.  The middleware forwards every request to the inner service exactly *)
(* once and rejects none; it changes nothing but the RealIp extension,     *)
(* which it leaves empty when resolution fails; no rejection exists until  *)
(* an extractor is called.                                                 *)
(***************************************************************************)
C4_AlwaysForwards ==
    /\ [](layered => (forwarded = IF pc = "recv" THEN 0 ELSE 1))
    /\ [](pc \in {"recv", "handler"})
    /\ [](nExtract = 0 => out = NoOut)
    /\ [][(pc = "recv" /\ layered) =>
            /\ pc' = "handler"
            /\ forwarded' = 1
            /\ headers' = headers
            /\ extensions'.ConnectInfo = extensions.ConnectInfo
            /\ nExtract' = 0
            /\ (Yielding = {} /\ (~tokio \/ extensions.ConnectInfo = None)) =>
                   extensions'.RealIp = None]_vars

C4_Witness ==
    /\ layered
    /\ pc = "handler"
    /\ forwarded = 1
    /\ headers["cf-connecting-ip"] = Some(TxtMalformed)
    /\ extensions.RealIp = None
    /\ out.kind = "RealIp"
    /\ Rejected(out)

C10_ExtractorsReadOnly ==
    /\ [][ExtractStep =>
            /\ headers' = headers
            /\ extensions' = extensions
            /\ extensions.RealIp = None =>
                   /\ out'.resolved
                   /\ out'.res.tag = "Ok" <=> get_ip_from_parts(CurrentParts) # None
                   /\ (out'.res.tag = "Ok" /\ out'.kind = "RealIp") =>
                          Some(out'.res.val) = get_ip_from_parts(CurrentParts)]_vars
    /\ [][pc = "handler" => extensions' = extensions]_vars
    /\ [](extensions.RealIp # None => layered)

C10_Witness ==
    /\ extensions.RealIp = Some(AddrFull)
    /\ nExtract = 2
    /\ out.after = "RealIpPrivacyMask"
    /\ out.kind = "RealIp"
    /\ out.res = OkResult(AddrFull)
    /\ Present(headers) = {}
====
